---- MODULE Spec2Model ----
(***************************************************************************)
(* A model of scrape_v5.py: the batch pipeline (scrape_csv_file), the      *)
(* place scraper (GoogleMapsScraper.scrape_place), the merge tool          *)
(* (merge_files) and the address cleaner (clean_address).                  *)
(*                                                                         *)
(* The page driver (Selenium) is the environment: what it returns, and     *)
(* whether a call on it raises, is a nondeterministic input of the action  *)
(* that makes the call.  File and console output are taken to succeed.     *)
(***************************************************************************)
EXTENDS Integers, Sequences, FiniteSets, TLC

VARIABLES
    \* ---- scrape_csv_file
    places,     \* the seed list after slicing (line 927-930)
    pc,         \* position of the running operation
    i,          \* enumerate(places, 1): seeds processed so far
    data,       \* the list of records accumulated in memory (line 935)
    disk,       \* the output file: [exists, content]
    driver,     \* GoogleMapsScraper.driver: "None" or "live"
    world,      \* how the pages of this run behave (environment)
    contrib,    \* history: contrib[k] is the seed position data[k] came from
    failed,     \* history: seed positions whose processing raised
    initLog,    \* history: the session creations tried, [seed, ok]
    sessions,   \* history: sessions created / quit
    \* ---- scrape_place, step by step
    seed,       \* the seed record being scraped
    result,     \* the result dict under construction
    links,      \* the result links found by the bounded wait (scores)
    scan,       \* the matching loop's locals: [best_score, best_link]
    clicked,    \* history: the links click() was called on, in order
    opened,     \* history: the links whose click() returned
    invoked,    \* history: the field extractors invoked, in order
    errs,       \* history: extractors inside which something raised
    \* ---- merge_files
    shards,     \* file name -> list of records, the matching files
    merged,     \* the merged output file: [exists, content]
    \* ---- clean_address
    addr,       \* the input string (a sequence of characters)
    once,       \* clean_address(addr)
    twice,      \* clean_address(clean_address(addr))
    \* ---- one call of a helper or of a field extractor
    input,      \* what the call is given: its argument, the page it reads
    output,     \* what the call returned
    ops         \* history: the driver operations issued by the call, in order

vars == << places, pc, i, data, disk, driver, world, contrib, failed, initLog,
           sessions, seed, result, links, scan, clicked, opened, invoked, errs,
           shards, merged, addr, once, twice, input, output, ops >>

batchVars == << places, i, data, disk, driver, world, contrib, failed, initLog, sessions >>
placeVars == << seed, result, links, scan, clicked, opened, invoked, errs >>
mergeVars == << shards, merged >>
cleanVars == << addr, once, twice >>
callVars == << input, output, ops >>

(***************************************************************************)
(* Bounds of the model and constants of the program.                       *)
(***************************************************************************)
MaxSeeds == 21
CheckpointInterval == 10
MatchCap == 10
MatchThreshold == 50
MaxLinks == 12
MaxRaises == 2
MaxShardLen == 2
MaxAtoms == 4
MaxUrlAtoms == 3
MaxPhraseAtoms == 3
MaxDivs == 2
MaxCsv == 6
MaxButtons == 2
MaxReviews == 2
MaxImgs == 4
MinAddressLen == 5
LongAddressLen == 15
MinImageWidth == 100
MinCategoryLen == 3
MaxCategoryLen == 50
MaxImages == 3

\* Python's None for a field of a record, and for an integer-valued field.
None == "None"
NoId == 0

(***************************************************************************)
(* Seeds and records.                                                      *)
(***************************************************************************)
\* Row k of the CSV file as scrape_csv_file loads it.  With dup, rows 1 and
\* 2 carry the same place_id (the file is not checked for duplicates).
MkSeed(k, dup) ==
    [ place_id |-> IF dup /\ k = 2 THEN 1 ELSE k,
      name     |-> 100 + k,
      address  |-> 200 + k,
      lat      |-> 300 + k,
      lon      |-> 400 + k,
      type     |-> 500 + k ]

NoSeed == MkSeed(0, FALSE)

Extractors == << "rating", "category", "price_level", "new_address", "phone",
                 "website", "opening_hours", "images", "about", "comments" >>

ExtractorSet == { Extractors[k] : k \in 1..Len(Extractors) }

\* What a field extractor did: it found a value; it found nothing; a call
\* inside it raised, its handlers caught that and nothing was obtained; or a
\* call inside it raised, was caught, and another strategy (or the items
\* parsed apart from the failing one) still gave a value.
Outcomes == { "value", "miss", "error", "recovered" }

\* The value a field holds when its extractor returns nothing: images and
\* comments are lists, the others None.
Absent(f) == IF f \in { "images", "comments" } THEN "[]" ELSE None

\* self.driver.current_url, as scrape_place stores it: the search view, a
\* resolved single place, or whatever the driver shows after a click.
UrlSearch == -1
UrlPlace == -2
UrlAfterClick == -3

\* EmptyResult with the address left out of the dict literal.
EmptyResult_NoAddress(p) ==
    [ name |-> p.name, original_address |-> NoId, lat |-> p.lat, lon |-> p.lon,
      google_maps_url |-> NoId, place_id |-> NoId, type |-> NoId,
      fields |-> [ f \in ExtractorSet |-> Absent(f) ] ]

\* The result dict scrape_place starts from (lines 776-793).  place_id and
\* type are not keys of it yet (NoId); the ten extracted fields are grouped
\* under fields.
EmptyResult(p) ==
    [ name |-> p.name, original_address |-> p.address, lat |-> p.lat, lon |-> p.lon,
      google_maps_url |-> NoId, place_id |-> NoId, type |-> NoId,
      fields |-> [ f \in ExtractorSet |-> Absent(f) ] ]

\* An extractor without a handler around the call that raises.
Escapes_Uncaught(f, o) == o = "error"

\* Whether something raised inside extractor f leaves it as an exception.
\* Every _get_* method wraps each of its driver calls in try/except and
\* returns its absent value afterwards, so nothing does.
Escapes(f, o) == FALSE

\* The value extractor f returns.
Returned(f, o) == IF o \in { "value", "recovered" } THEN "value" ELSE Absent(f)

\* result[f] = self._get_f()
ApplyExtractor(r, f, o) == [ r EXCEPT !.fields[f] = Returned(f, o) ]

\* Lines 843-882 from the k-th extractor on, as one computation: ext gives
\* every extractor's outcome.  An exception leaving an extractor is caught
\* at line 884 and skips the extractors after it.
RECURSIVE RunExtractors(_, _, _)
RunExtractors(r, ext, k) ==
    IF k > Len(Extractors) THEN r
    ELSE LET f == Extractors[k] IN
         IF Escapes(f, ext[f]) THEN r
         ELSE RunExtractors(ApplyExtractor(r, f, ext[f]), ext, k + 1)

(***************************************************************************)
(* Candidate matching (lines 812-837).  A link is modelled by the score    *)
(* its candidate name gets against the seed name, 0..100, or NoCand when   *)
(* reading its href raises or the href holds no /place/ name.              *)
(***************************************************************************)
NoCand == -1
NoScan == [ best_score |-> 0, best_link |-> 0 ]

\* One pass of the for loop over link k with score s (lines 818-828).
ScanStep(sc, k, s) ==
    IF s # NoCand /\ s > sc.best_score
    THEN [ best_score |-> s, best_link |-> k ]
    ELSE sc

Min(a, b) == IF a < b THEN a ELSE b

\* The for loop over links[:10], from link k on.
RECURSIVE ScanLinks(_, _, _)
ScanLinks(ls, k, sc) ==
    IF k > Min(Len(ls), MatchCap) THEN sc
    ELSE ScanLinks(ls, k + 1, ScanStep(sc, k, ls[k]))

\* The threshold test written best_score > 50.
Chosen_Strict(ls, sc) ==
    IF sc.best_link # 0 /\ sc.best_score > MatchThreshold THEN sc.best_link ELSE 1

\* The link click() is called on (lines 830-837); ls is not empty.
Chosen(ls, sc) ==
    IF sc.best_link # 0 /\ sc.best_score >= MatchThreshold THEN sc.best_link ELSE 1

\* if "/search/" in current_url or not re.search(r'/place/[^/]+/@', current_url)
NeedsMatch(url) == url # UrlPlace

(***************************************************************************)
(* scrape_place as one computation over a page: what driver.get does, the  *)
(* url it lands on, the links the wait returns (none: it timed out), what  *)
(* click() does and what each extractor finds.  The driver exists.         *)
(***************************************************************************)
scrape_place(p, page) ==
    LET r0 == EmptyResult(p) IN
    IF page.get = "raise" THEN r0
    ELSE LET r1 == [ r0 EXCEPT !.google_maps_url = page.url ]
             r2 == IF NeedsMatch(page.url) /\ page.links # << >> /\ page.click = "ok"
                   THEN [ r1 EXCEPT !.google_maps_url = UrlAfterClick ]
                   ELSE r1
         IN RunExtractors(r2, page.ext, 1)

(***************************************************************************)
(* GoogleMapsScraper.init_driver and close.                                *)
(***************************************************************************)
\* What creating a session can do: succeed, raise in webdriver.Chrome (the
\* driver stays None), or raise in set_page_load_timeout (the driver is set).
DriverOutcomes == { "ok", "create_raises", "setup_raises" }

\* init_driver without the test of line 144: a session for every call.
init_driver_PerCall(drv, o) ==
    [ driver  |-> IF o = "create_raises" THEN drv ELSE "live",
      raised  |-> o # "ok",
      created |-> o # "create_raises",
      tried   |-> TRUE ]

init_driver(drv, o) ==
    IF drv # None
    THEN [ driver |-> drv, raised |-> FALSE, created |-> FALSE, tried |-> FALSE ]
    ELSE [ driver  |-> IF o = "create_raises" THEN None ELSE "live",
           raised  |-> o # "ok",
           created |-> o # "create_raises",
           tried   |-> TRUE ]

\* close(): quits the session if there is one.
close(drv, ss) ==
    [ driver |-> None,
      sessions |-> IF drv # None THEN [ ss EXCEPT !.quit = @ + 1 ] ELSE ss ]

(***************************************************************************)
(* scrape_csv_file.                                                        *)
(***************************************************************************)
\* Stamp without result['place_id'] = p['place_id'].
Stamp_Forget(r, p) == [ r EXCEPT !.type = p.type ]

\* Lines 944-946: the seed's identifier and type are copied into the result.
Stamp(r, p) == [ r EXCEPT !.place_id = p.place_id, !.type = p.type ]

\* The checkpoint test on a zero-based index (enumerate(places)).
ShouldCheckpoint_ZeroBased(k) == (k - 1) % CheckpointInterval = 0

\* The checkpoint test with the interval mistyped as 100.
ShouldCheckpoint_Typo(k) == k % (CheckpointInterval * CheckpointInterval) = 0

\* if i % 10 == 0
ShouldCheckpoint(k) == k % CheckpointInterval = 0

\* json.dump(data, f) into output_file
Written(d) == [ exists |-> TRUE, content |-> d ]
NoFile == [ exists |-> FALSE, content |-> << >> ]

\* The pages a batch run meets: the search raises; a resolved place on which
\* every extractor fails; a search view whose best link is opened and every
\* extractor finds its value; a search view whose click raises.
BatchPages ==
    { [ get |-> "raise", url |-> UrlSearch, links |-> << >>, click |-> "ok",
        ext |-> [ f \in ExtractorSet |-> "error" ] ],
      [ get |-> "ok", url |-> UrlPlace, links |-> << >>, click |-> "ok",
        ext |-> [ f \in ExtractorSet |-> "error" ] ],
      [ get |-> "ok", url |-> UrlSearch, links |-> << 30, 80 >>, click |-> "ok",
        ext |-> [ f \in ExtractorSet |-> "value" ] ],
      [ get |-> "ok", url |-> UrlSearch, links |-> << NoCand >>, click |-> "raise",
        ext |-> [ f \in ExtractorSet |-> "miss" ] ] }

NoScrape == EmptyResult(NoSeed)

\* No helper or extractor call is being followed.
NoCall == input = << >> /\ output = << >> /\ ops = << >>

InitRest ==
    /\ seed = NoSeed /\ result = NoScrape /\ links = << >> /\ scan = NoScan
    /\ clicked = << >> /\ opened = << >> /\ invoked = << >> /\ errs = { }
    /\ shards = << >> /\ merged = NoFile
    /\ addr = << >> /\ once = << >> /\ twice = << >>

\* scrape_csv_file entered: the seeds are loaded, the scraper is constructed
\* (no driver yet) and data is empty.
Init ==
    /\ \E n \in 0..MaxSeeds, dup \in BOOLEAN :
          places = [ k \in 1..n |-> MkSeed(k, dup) ]
    /\ world \in BatchPages
    /\ pc = "loop" /\ i = 0 /\ data = << >> /\ disk = NoFile
    /\ driver = None /\ contrib = << >> /\ failed = { } /\ initLog = << >>
    /\ sessions = [ created |-> 0, quit |-> 0 ]
    /\ InitRest
    /\ NoCall

\* The loop body without a handler that catches Exception.
OnSeedError_Propagate(kind) == "propagate"

\* The handler with break in the place of continue.
OnSeedError_Break(kind) == IF kind = "Exception" THEN "break" ELSE "propagate"

\* What the handler of line 953 does with an exception leaving the loop
\* body: except Exception catches it and continues with the next seed; a
\* KeyboardInterrupt is not an Exception and leaves the loop.
OnSeedError(kind) == IF kind = "Exception" THEN "continue" ELSE "propagate"

\* One pass of the for loop (lines 938-955): scrape_place on the next seed,
\* the result stamped and appended, the checkpoint every tenth pass.  What
\* init_driver raises is a WebDriverException, an Exception; scrape_place
\* lets it through (line 774 is outside its try).
LoopBody ==
    /\ pc = "loop" /\ i < Len(places)
    /\ \E o \in DriverOutcomes :
          LET k == i + 1
              p == places[k]
              d == init_driver(driver, o)
              r == Stamp(scrape_place(p, world), p)
              nd == Append(data, r)
              h == OnSeedError("Exception")
          IN /\ d.tried \/ o = "ok"
             /\ i' = k
             /\ initLog' = IF d.tried
                           THEN Append(initLog, [ seed |-> k, ok |-> ~d.raised,
                                                  created |-> d.created ])
                           ELSE initLog
             /\ IF d.raised
                THEN /\ failed' = failed \cup { k }
                     /\ UNCHANGED << data, contrib, disk >>
                     /\ pc' = CASE h = "continue" -> "loop"
                                [] h = "break" -> "broke"
                                [] OTHER -> "aborted"
                     /\ LET ss == IF d.created
                                  THEN [ sessions EXCEPT !.created = @ + 1 ]
                                  ELSE sessions
                        IN IF h = "propagate"
                           THEN /\ driver' = close(d.driver, ss).driver
                                /\ sessions' = close(d.driver, ss).sessions
                           ELSE /\ driver' = d.driver
                                /\ sessions' = ss
                ELSE /\ data' = nd
                     /\ contrib' = Append(contrib, k)
                     /\ disk' = IF ShouldCheckpoint(k) THEN Written(nd) ELSE disk
                     /\ driver' = d.driver
                     /\ sessions' = IF d.created
                                    THEN [ sessions EXCEPT !.created = @ + 1 ]
                                    ELSE sessions
                     /\ UNCHANGED << failed, pc >>
    /\ UNCHANGED << places, world >>
    /\ UNCHANGED << placeVars, mergeVars, cleanVars, callVars >>

\* Lines 957-963: the loop is over, data is written and returned.
FinalWrite ==
    /\ pc \in { "loop", "broke" }
    /\ pc = "loop" => i = Len(places)
    /\ disk' = Written(data)
    /\ pc' = "written"
    /\ UNCHANGED << places, i, data, driver, world, contrib, failed, initLog, sessions >>
    /\ UNCHANGED << placeVars, mergeVars, cleanVars, callVars >>

\* Lines 964-965, on the normal path: finally scraper.close().
Close ==
    /\ pc = "written"
    /\ driver' = close(driver, sessions).driver
    /\ sessions' = close(driver, sessions).sessions
    /\ pc' = "done"
    /\ UNCHANGED << places, i, data, disk, world, contrib, failed, initLog >>
    /\ UNCHANGED << placeVars, mergeVars, cleanVars, callVars >>

\* A KeyboardInterrupt between two seeds: line 953 lets it through, so it
\* leaves scrape_csv_file through finally (close) without the final write.
Interrupt ==
    /\ pc = "loop"
    /\ OnSeedError("KeyboardInterrupt") = "propagate"
    /\ driver' = close(driver, sessions).driver
    /\ sessions' = close(driver, sessions).sessions
    /\ pc' = "interrupted"
    /\ UNCHANGED << places, i, data, disk, world, contrib, failed, initLog >>
    /\ UNCHANGED << placeVars, mergeVars, cleanVars, callVars >>

Next == LoopBody \/ FinalWrite \/ Close \/ Interrupt

Spec == Init /\ [][Next]_vars

(***************************************************************************)
(* scrape_place, step by step: the driver check, the search, the bounded   *)
(* wait for result links, the candidate match, then the ten extractors.    *)
(***************************************************************************)
NoPage ==
    [ get |-> "raise", url |-> UrlSearch, links |-> << >>, click |-> "ok",
      ext |-> [ f \in ExtractorSet |-> "error" ] ]

InitBatchRest ==
    /\ places = << >> /\ i = 0 /\ data = << >> /\ disk = NoFile
    /\ world = NoPage /\ contrib = << >> /\ failed = { } /\ initLog = << >>
    /\ sessions = [ created |-> 0, quit |-> 0 ]

\* scrape_place is called on a seed, by a scraper with or without a driver.
InitPlace ==
    /\ pc = "sp_call"
    /\ driver \in { None, "live" }
    /\ seed = MkSeed(1, FALSE)
    /\ result = NoScrape /\ links = << >> /\ scan = NoScan
    /\ clicked = << >> /\ opened = << >> /\ invoked = << >> /\ errs = { }
    /\ InitBatchRest
    /\ shards = << >> /\ merged = NoFile
    /\ addr = << >> /\ once = << >> /\ twice = << >>
    /\ NoCall

\* Lines 773-793: the driver is created if there is none, which may raise
\* out of scrape_place; then the result dict is built.
SP_Enter ==
    /\ pc = "sp_call"
    /\ \E o \in DriverOutcomes :
          LET d == init_driver(driver, o) IN
          /\ d.tried \/ o = "ok"
          /\ driver' = d.driver
          /\ IF d.raised
             THEN pc' = "sp_raised" /\ UNCHANGED result
             ELSE pc' = "sp_search" /\ result' = EmptyResult(seed)
    /\ UNCHANGED << seed, links, scan, clicked, opened, invoked, errs >>
    /\ UNCHANGED << places, i, data, disk, world, contrib, failed, initLog, sessions >>
    /\ UNCHANGED << mergeVars, cleanVars, callVars >>

\* Lines 796-807: driver.get and the read of current_url.  If either raises
\* the handler of line 884 returns the result as it is.
SP_Search ==
    /\ pc = "sp_search"
    /\ \E g \in { "ok", "raise" }, url \in { UrlSearch, UrlPlace } :
          IF g = "raise"
          THEN /\ url = UrlSearch
               /\ pc' = "sp_done" /\ UNCHANGED result
          ELSE /\ result' = [ result EXCEPT !.google_maps_url = url ]
               /\ pc' = IF NeedsMatch(url) THEN "sp_wait" ELSE "sp_extract"
    /\ UNCHANGED << seed, links, scan, clicked, opened, invoked, errs >>
    /\ UNCHANGED << batchVars, mergeVars, cleanVars, callVars >>

\* The scores a link can have: no candidate name, nothing in common, just
\* under and at the threshold, and a good match.
ScoreSet == { NoCand, 0, 49, MatchThreshold, 90 }

\* The link lists the wait can return: up to MaxLinks links, all with the
\* score base but the links at a and b.
LinkLists ==
    { [ k \in 1..n |-> IF k = a THEN sa ELSE IF k = b THEN sb ELSE base ] :
        n \in 1..MaxLinks, a \in 1..MaxLinks, b \in 1..MaxLinks,
        sa \in ScoreSet, sb \in ScoreSet, base \in ScoreSet }

\* Lines 809-812: the wait of at most 5 s for result links returns them, or
\* raises TimeoutException, which the handler of line 838 swallows.
SP_Wait ==
    /\ pc = "sp_wait"
    /\ \/ /\ pc' = "sp_extract"
          /\ UNCHANGED links
       \/ /\ \E ls \in LinkLists : links' = ls
          /\ pc' = "sp_match"
    /\ UNCHANGED << seed, result, scan, clicked, opened, invoked, errs >>
    /\ UNCHANGED << batchVars, mergeVars, cleanVars, callVars >>

\* Lines 813-837: the links are scored, click() is called on the chosen one
\* and, if it returns, current_url is stored.  A click that raises is
\* swallowed by the handler of line 838.
SP_Match ==
    /\ pc = "sp_match"
    /\ LET sc == ScanLinks(links, 1, NoScan)
           c == Chosen(links, sc)
       IN /\ scan' = sc
          /\ clicked' = << c >>
          /\ \E ck \in { "ok", "raise" } :
                IF ck = "ok"
                THEN /\ opened' = << c >>
                     /\ result' = [ result EXCEPT !.google_maps_url = UrlAfterClick ]
                ELSE /\ opened' = << >>
                     /\ UNCHANGED result
    /\ pc' = "sp_matched"
    /\ UNCHANGED << seed, links, invoked, errs >>
    /\ UNCHANGED << batchVars, mergeVars, cleanVars, callVars >>

\* Lines 843-882, one extractor call: result[f] = self._get_f().  The locals
\* of the matching block are dead from here on.
SP_Extract ==
    /\ pc \in { "sp_extract", "sp_matched" }
    /\ Len(invoked) < Len(Extractors)
    /\ LET f == Extractors[Len(invoked) + 1] IN
       \E o \in Outcomes :
          /\ o = "error" => Cardinality(errs) < MaxRaises
          /\ invoked' = Append(invoked, f)
          /\ errs' = IF o = "error" THEN errs \cup { f } ELSE errs
          /\ IF Escapes(f, o)
             THEN pc' = "sp_done" /\ UNCHANGED result
             ELSE /\ result' = ApplyExtractor(result, f, o)
                  /\ pc' = IF Len(invoked) + 1 = Len(Extractors)
                           THEN "sp_done" ELSE "sp_extract"
    /\ links' = << >> /\ scan' = NoScan /\ clicked' = << >> /\ opened' = << >>
    /\ UNCHANGED seed
    /\ UNCHANGED << batchVars, mergeVars, cleanVars, callVars >>

NextPlace == SP_Enter \/ SP_Search \/ SP_Wait \/ SP_Match \/ SP_Extract

SpecPlace == InitPlace /\ [][NextPlace]_vars

(***************************************************************************)
(* merge_files.  A file name is the sequence of its character codes, a     *)
(* shard the list of records json.load returns; a record is its place_id   *)
(* (NoId: the key is missing, x.get gives None) and, standing for the rest *)
(* of its content, the file and the position it was read from.             *)
(***************************************************************************)
\* The names glob can return: "1", "10" and "2" for the parts in which the
\* names of three shards of one run differ.
FileNames == { << 49 >>, << 49, 48 >>, << 50 >> }

ShardIds == { NoId, 1, 2 }

\* Python's < on two strings.
StrLess(a, b) ==
    \/ Len(a) < Len(b) /\ \A k \in 1..Len(a) : a[k] = b[k]
    \/ \E k \in 1..Min(Len(a), Len(b)) :
          /\ a[k] < b[k]
          /\ \A j \in 1..(k - 1) : a[j] = b[j]

\* sorted(files) as it was, without the sort.
SortFiles_AsGlobbed(fs) == fs

\* sorted(files), fs a list without repetition: the smallest first.
RECURSIVE SortFiles(_)
SortFiles(fs) ==
    IF fs = << >> THEN << >>
    ELSE LET m == CHOOSE k \in 1..Len(fs) :
                      \A j \in 1..Len(fs) : j # k => StrLess(fs[k], fs[j])
             rest == [ j \in 1..(Len(fs) - 1) |-> IF j < m THEN fs[j] ELSE fs[j + 1] ]
         IN << fs[m] >> \o SortFiles(rest)

\* Lines 976-979: all_data.extend(json.load(file)) for each file in turn.
RECURSIVE Concat(_, _)
Concat(fs, sh) ==
    IF fs = << >> THEN << >> ELSE sh[Head(fs)] \o Concat(Tail(fs), sh)

\* Lines 982-983: the entries whose place_id was not seen before, in order.
RECURSIVE Unique(_, _)
Unique(all, seen) ==
    IF all = << >> THEN << >>
    ELSE IF Head(all).place_id \in seen
         THEN Unique(Tail(all), seen)
         ELSE << Head(all) >> \o Unique(Tail(all), seen \cup { Head(all).place_id })

\* The contents a shard named f can have.
ShardContents(f) ==
    { [ k \in 1..n |-> [ place_id |-> ids[k], file |-> f, pos |-> k ] ] :
        n \in 0..MaxShardLen, ids \in [ 1..MaxShardLen -> ShardIds ] }

\* The orders glob can return the files of the set fs in.
Orders(fs) ==
    { q \in [ 1..Cardinality(fs) -> fs ] :
        \A a, b \in 1..Cardinality(fs) : a # b => q[a] # q[b] }

\* merge_files is called on a directory holding any of the shard files.
InitMerge ==
    /\ pc = "mg_call"
    /\ \E fs \in SUBSET FileNames :
          shards \in [ fs -> UNION { ShardContents(f) : f \in FileNames } ]
    /\ \A f \in DOMAIN shards : shards[f] \in ShardContents(f)
    /\ merged = NoFile
    /\ InitBatchRest
    /\ driver = None
    /\ seed = NoSeed /\ result = NoScrape /\ links = << >> /\ scan = NoScan
    /\ clicked = << >> /\ opened = << >> /\ invoked = << >> /\ errs = { }
    /\ addr = << >> /\ once = << >> /\ twice = << >>
    /\ NoCall

\* Lines 971-991: with no matching file it reports and returns; otherwise
\* the shards are read in sorted order and the unique entries written.
MergeFiles ==
    /\ pc = "mg_call"
    /\ \E globbed \in Orders(DOMAIN shards) :
          IF globbed = << >>
          THEN UNCHANGED merged
          ELSE merged' = Written(Unique(Concat(SortFiles(globbed), shards), { }))
    /\ pc' = "mg_done"
    /\ UNCHANGED shards
    /\ UNCHANGED << batchVars, placeVars, cleanVars, callVars >>

NextMerge == MergeFiles

SpecMerge == InitMerge /\ [][NextMerge]_vars

(***************************************************************************)
(* clean_address.  A string is the sequence of its characters.             *)
(***************************************************************************)
\* Python's None where a string is expected.
NoStr == << "<None>" >>

\* The patterns of invalid_patterns (lines 68-89) that are plain text; every
\* letter with its diacritics is one character, written in VNI (o73 is o with horn and hook).
InvalidLiterals ==
    { << "middot" >>,
      << "D9", "i", "e63", "m", " ", "t", "h", "u", " ", "h", "u1", "t" >>,
      << "D9", "i", "e63", "m", " ", "m", "o61", "c" >>,
      << "D9", "u7", "o72", "n", "g", " ", "d9", "i" >>,
      << "M", "o73", " ", "c", "u73", "a" >>,
      << "D9", "o1", "n", "g", " ", "c", "u73", "a" >>,
      << "S", "a81", "p", " ", "d9", "o1", "n", "g" >>,
      << "S", "a81", "p", " ", "m", "o73" >>,
      << "K", "h", "a1", "c", "h", " ", "s", "a5", "n", " ", "n", "g", "h", "i3" >>,
      << "B", "e63", " ", "b", "o7", "i" >>,
      << "W", "i", "-", "F", "i" >>,
      << "D9", "u7", "o75", "c", " ", "t", "a2", "i", " ", "t", "r", "o75" >>,
      << "C", "u3", "a", " ", "A", "g", "o", "d", "a" >>,
      << "B", "o", "o", "k", "i", "n", "g", ".", "c", "o", "m" >>,
      << "D9", "a5", "i", " ", "l", "y1", " ", "d", "u", " ", "l", "i5", "c", "h" >>,
      << "C", "o6", "n", "g", " ", "v", "i", "e6", "n", " ", "x", "e" >>,
      << "P", "h", "o2", "n", "g", " ", "c", "h", "o", " ", "t", "h", "u", "e6" >> }

\* valid_keywords (lines 98-103).
ValidKeywords ==
    { << "d9", "u7", "o72", "n", "g" >>,
      << "p", "h", "o61" >>,
      << "q", "u", "a65", "n" >>,
      << "h", "u", "y", "e65", "n" >>,
      << "t", "i3", "n", "h" >>,
      << "t", "h", "a2", "n", "h", " ", "p", "h", "o61" >>,
      << "t", "p" >>,
      << "p", "h", "u7", "o72", "n", "g" >>,
      << "x", "a4" >>,
      << "t", "h", "i5", " ", "t", "r", "a61", "n" >>,
      << "a61", "p" >>,
      << "t", "h", "o6", "n" >>,
      << "s", "o61" >>,
      << "n", "g", "o4" >>,
      << "n", "g", "a1", "c", "h" >>,
      << "s", "t", "r", "e", "e", "t" >>,
      << "r", "o", "a", "d" >>,
      << "d", "i", "s", "t", "r", "i", "c", "t" >>,
      << "c", "i", "t", "y" >>,
      << "p", "r", "o", "v", "i", "n", "c", "e" >>,
      << "w", "a", "r", "d" >>,
      << "v", "i", "e65", "t", " ", "n", "a", "m" >>,
      << "v", "i", "e", "t", "n", "a", "m" >>,
      << "v", "n" >>,
      << "k", "h", "a1", "n", "h", " ", "h", "o2", "a" >>,
      << "n", "h", "a", " ", "t", "r", "a", "n", "g" >> }

\* The upper-case characters of the model and their lower-case forms.
CasePairs ==
    { << "A", "a" >>,
      << "B", "b" >>,
      << "C", "c" >>,
      << "D9", "d9" >>,
      << "F", "f" >>,
      << "K", "k" >>,
      << "M", "m" >>,
      << "P", "p" >>,
      << "S", "s" >>,
      << "T", "t" >>,
      << "W", "w" >> }

\* The pieces the input strings are put together from: a space, a tab, a
\* digit, the keyword tp in both cases, the two words of the pattern
\* M o73 / c u73 a, a letter, a parenthesis and a run of fourteen letters.
Atoms ==
    { << " " >>,
      << "TAB" >>,
      << "1" >>,
      << "t", "p" >>,
      << "T", "P" >>,
      << "M", "o73" >>,
      << "c", "u73", "a" >>,
      << "x" >>,
      << "(" >>,
      << "x", "x", "x", "x", "x", "x", "x", "x", "x", "x", "x", "x", "x", "x" >> }

\* \s and str.strip(): white space.
IsSpace(c) == c \in { " ", "TAB" }

\* \d
IsDigit(c) == c \in { "0", "1", "2", "3", "4", "5", "6", "7", "8", "9" }

\* \w: what \b takes for part of a word.
IsWordChar(c) == ~IsSpace(c) /\ c \notin { "(", ")", "-", ".", ",", "middot", "<None>" }

\* str.lower() and re.IGNORECASE on one character.
Lower(c) ==
    IF \E p \in CasePairs : p[1] = c
    THEN (CHOOSE p \in CasePairs : p[1] = c)[2]
    ELSE c

LowerStr(s) == [ k \in 1..Len(s) |-> Lower(s[k]) ]

\* pat matches s at position k, case ignored.
MatchesAt(s, pat, k) ==
    /\ k + Len(pat) - 1 <= Len(s)
    /\ \A j \in 1..Len(pat) : Lower(s[k + j - 1]) = Lower(pat[j])

\* re.search(pat, s, re.IGNORECASE) for a plain-text pattern.
SearchCI(s, pat) == \E k \in 1..Len(s) : MatchesAt(s, pat, k)

\* re.search(r'\bw\b', s, re.IGNORECASE)
SearchWordCI(s, w) ==
    \E k \in 1..Len(s) :
        /\ MatchesAt(s, w, k)
        /\ k = 1 \/ ~IsWordChar(s[k - 1])
        /\ k + Len(w) > Len(s) \/ ~IsWordChar(s[k + Len(w)])

\* re.search(r'\d+[,.]?\d*\s*\(\d', s): a parenthesis followed by a digit and
\* preceded, white space apart, by a digit or by a digit and a separator.
SearchRating(s) ==
    \E j \in 2..(Len(s) - 1) :
        /\ s[j] = "(" /\ IsDigit(s[j + 1])
        /\ \E k \in 1..(j - 1) :
              /\ \A m \in (k + 1)..(j - 1) : IsSpace(s[m])
              /\ \/ IsDigit(s[k])
                 \/ s[k] \in { ",", "." } /\ k >= 2 /\ IsDigit(s[k - 1])

\* Lines 91-93: some pattern of invalid_patterns is found in s.
IsInvalid(s) ==
    \/ SearchRating(s)
    \/ \E pat \in InvalidLiterals : SearchCI(s, pat)
    \/ SearchWordCI(s, << "s", "a", "o" >>)
    \/ SearchWordCI(s, << "s", "t", "a", "r" >>)

\* re.sub(r'\s+', ' ', s)
RECURSIVE Collapse(_)
Collapse(s) ==
    IF s = << >> THEN << >>
    ELSE LET rest == Collapse(Tail(s)) IN
         IF IsSpace(Head(s))
         THEN IF rest # << >> /\ rest[1] = " " THEN rest ELSE << " " >> \o rest
         ELSE << Head(s) >> \o rest

RECURSIVE LStrip(_)
LStrip(s) == IF s # << >> /\ IsSpace(Head(s)) THEN LStrip(Tail(s)) ELSE s

RECURSIVE RStrip(_)
RStrip(s) ==
    IF s # << >> /\ IsSpace(s[Len(s)]) THEN RStrip(SubSeq(s, 1, Len(s) - 1)) ELSE s

\* str.strip()
Strip(s) == RStrip(LStrip(s))

\* kw in s
Contains(s, kw) ==
    \E k \in 1..Len(s) :
        /\ k + Len(kw) - 1 <= Len(s)
        /\ \A j \in 1..Len(kw) : s[k + j - 1] = kw[j]

clean_address(a) ==
    IF a = NoStr \/ a = << >> \/ Len(a) < MinAddressLen THEN NoStr
    ELSE IF IsInvalid(a) THEN NoStr
    ELSE LET b == Strip(Collapse(a))
             has_valid == \E kw \in ValidKeywords : Contains(LowerStr(b), kw)
             has_number == \E k \in 1..Len(b) : IsDigit(b[k])
         IN IF has_valid \/ (has_number /\ Len(b) > LongAddressLen) THEN b ELSE NoStr

\* The strings made of at most n atoms.
RECURSIVE Strings(_)
Strings(n) ==
    IF n = 0 THEN { << >> }
    ELSE LET S == Strings(n - 1) IN S \cup { s \o a : s \in S, a \in Atoms }

\* clean_address is about to be called on a string.
InitClean ==
    /\ pc = "ca_call"
    /\ addr \in Strings(MaxAtoms)
    /\ once = NoStr /\ twice = NoStr
    /\ InitBatchRest
    /\ driver = None
    /\ seed = NoSeed /\ result = NoScrape /\ links = << >> /\ scan = NoScan
    /\ clicked = << >> /\ opened = << >> /\ invoked = << >> /\ errs = { }
    /\ shards = << >> /\ merged = NoFile
    /\ NoCall

\* clean_address on the string.
CleanOnce ==
    /\ pc = "ca_call"
    /\ once' = clean_address(addr)
    /\ pc' = "ca_once"
    /\ UNCHANGED << addr, twice >>
    /\ UNCHANGED << batchVars, placeVars, mergeVars, callVars >>

\* clean_address on what it returned, if it returned a string.
CleanAgain ==
    /\ pc = "ca_once" /\ once # NoStr
    /\ twice' = clean_address(once)
    /\ pc' = "ca_twice"
    /\ UNCHANGED << addr, once >>
    /\ UNCHANGED << batchVars, placeVars, mergeVars, callVars >>

NextClean == CleanOnce \/ CleanAgain

SpecClean == InitClean /\ [][NextClean]_vars

(***************************************************************************)
(* Properties of the batch pipeline.                                       *)
(***************************************************************************)
Range(q) == { q[k] : k \in 1..Len(q) }

IsPrefix(a, b) == Len(a) <= Len(b) /\ \A k \in 1..Len(a) : a[k] = b[k]

\* c * floor(k / c)
LastCheckpoint(k) == CheckpointInterval * (k \div CheckpointInterval)

\* Every record of the list q carries the place_id of the seed it came from.
IdsFromSeeds(q) ==
    \A k \in 1..Len(q) :
        /\ contrib[k] \in 1..Len(places)
        /\ q[k].place_id = places[contrib[k]].place_id

\* C1: a batch run over N seeds produces at most N records, in memory and in
\* the output file; no seed contributes two records; and every record's
\* place_id is that of the seed it came from.
C1_NoFabrication ==
    /\ Len(data) <= Len(places)
    /\ Len(contrib) = Len(data)
    /\ \A a, b \in 1..Len(contrib) : a # b => contrib[a] # contrib[b]
    /\ IdsFromSeeds(data)
    /\ IsPrefix(disk.content, data)

\* A finished run in which some seeds failed and others produced records.
C1_Witness ==
    /\ pc = "done" /\ failed # { }
    /\ Len(data) >= 2 /\ Len(data) < Len(places) /\ disk.content = data

\* C2, as claimed: after k seeds the output file holds at least
\* c * floor(k / c) records, whatever seeds failed.
C2_Original == Len(disk.content) >= LastCheckpoint(i)

\* C2, amended: after k seeds the output file holds at least c * floor(k / c)
\* records less the seeds among the first c * floor(k / c) that failed.
C2_CheckpointFloor ==
    Len(disk.content) >=
        LastCheckpoint(i) - Cardinality(failed \cap (1..LastCheckpoint(i)))

\* An interrupted run past a checkpoint, with failed seeds before it, whose
\* file holds exactly the bound, and something.
C2_Witness ==
    /\ pc = "interrupted" /\ i > CheckpointInterval /\ failed # { }
    /\ Len(disk.content) = LastCheckpoint(i) - Cardinality(failed)
    /\ Len(disk.content) > 0

FailedCreations == { n \in 1..Len(initLog) : ~initLog[n].ok }

\* C4, as claimed: after a session creation that raised no further seed is
\* attempted and no session creation is tried again.
C4_Original ==
    \A n \in FailedCreations : i = initLog[n].seed /\ n = Len(initLog)

\* C4, amended: a session creation that raises fails its seed only.  The
\* seed contributes no record, the run is not aborted, the next seed is
\* attempted, and while the scraper holds no driver every seed tries the
\* creation again.
C4_CreationFailureIsPerSeed ==
    /\ pc # "aborted"
    /\ \A n \in FailedCreations :
          /\ initLog[n].seed = n
          /\ n \in failed
          /\ n \notin Range(contrib)
          /\ (i > n /\ ~initLog[n].created) => Len(initLog) > n
    /\ (pc = "loop" /\ i < Len(places)) => ENABLED LoopBody
    /\ pc \in { "written", "done" } => i = Len(places)

\* Two creations raised, the third made the session, and the run finished
\* with the records of the seeds after them.
C4_Witness ==
    /\ pc = "done" /\ Len(initLog) = 3 /\ FailedCreations = { 1, 2 }
    /\ initLog[3].ok /\ Len(data) = Len(places) - 2 /\ Len(data) > 0

\* C5: a seed whose processing raises contributes no record; the seeds are
\* processed in order without a gap, those after a failed one too; and a
\* run that is not interrupted ends with every seed processed and the
\* output file holding all the records.
C5_FailureIsolated ==
    /\ failed \cap Range(contrib) = { }
    /\ failed \cup Range(contrib) = 1..i
    /\ \A a, b \in 1..Len(contrib) : a < b => contrib[a] < contrib[b]
    /\ pc \in { "loop", "written", "done", "interrupted" }
    /\ pc \in { "written", "done" } => i = Len(places) /\ disk = Written(data)

\* A finished run whose first seed failed and whose last seed has its record
\* in the output file.
C5_Witness ==
    /\ pc = "done" /\ 1 \in failed /\ Len(places) >= 3
    /\ Len(contrib) >= 1 /\ contrib[Len(contrib)] = Len(places)
    /\ disk = Written(data)

\* C7: every record of the batch has the identifier, the name, the original
\* address and the coordinates of its seed, whatever the page did.
C7_SeedFieldsPopulated ==
    \A k \in 1..Len(data) :
        LET p == places[contrib[k]]
            r == data[k]
        IN /\ r.place_id = p.place_id
           /\ r.name = p.name
           /\ r.original_address = p.address
           /\ r.lat = p.lat
           /\ r.lon = p.lon

\* A record of a run in which the search raised: no url, no extracted field.
C7_Witness ==
    /\ world.get = "raise" /\ Len(data) >= 1
    /\ data[1].google_maps_url = NoId
    /\ \A f \in ExtractorSet : data[1].fields[f] = Absent(f)
    /\ data[1].name = places[contrib[1]].name

(***************************************************************************)
(* Properties of scrape_place.                                             *)
(***************************************************************************)
\* C6: once the search has succeeded the ten extractors are invoked in their
\* order, all of them, whatever raised inside any of them; and the field of
\* an extractor that failed holds its absent value in the record.
C6_ExtractorsIsolated ==
    /\ IsPrefix(invoked, Extractors)
    /\ errs \subseteq Range(invoked)
    /\ \A f \in errs : result.fields[f] = Absent(f)
    /\ (pc = "sp_done" /\ result.google_maps_url # NoId) => invoked = Extractors

\* The first extractor and one in the middle failed; the last one was still
\* invoked and found its value.
C6_Witness ==
    /\ pc = "sp_done" /\ errs = { "rating", "website" }
    /\ invoked = Extractors
    /\ result.fields["rating"] = None
    /\ result.fields["comments"] = "value"

\* The links of the first MatchCap that have a candidate name.
Scored == { k \in 1..Min(Len(links), MatchCap) : links[k] # NoCand }

\* The first of the highest-scoring links among them.
TopLink ==
    CHOOSE k \in Scored :
        /\ \A j \in Scored : links[j] <= links[k]
        /\ \A j \in Scored : links[j] = links[k] => k <= j

\* The link the decision rule names.
Expected ==
    IF Scored # { } /\ links[TopLink] >= MatchThreshold THEN TopLink ELSE 1

\* C8, as claimed: with a non-empty list of links exactly one candidate is
\* opened, the one the decision rule names, and matching never ends with no
\* candidate opened.
C8_Original == pc = "sp_matched" => opened = << Expected >>

\* C8, amended: click() is called exactly once, on the candidate the rule
\* names; the candidate is opened if that click returns, and if it raises
\* none is opened and the url stays that of the search view.
C8_OneClickOnExpected ==
    pc = "sp_matched" =>
        /\ links # << >>
        /\ clicked = << Expected >>
        /\ opened = clicked \/ opened = << >>
        /\ opened = << >> => result.google_maps_url = UrlSearch
        /\ opened # << >> => result.google_maps_url = UrlAfterClick

\* More than MatchCap links; the best of all is past the cap, the best of the
\* first MatchCap is just at the threshold and not the first link: it is the
\* one clicked and opened.
C8_Witness ==
    /\ pc = "sp_matched" /\ Len(links) > MatchCap
    /\ links[Len(links)] > MatchThreshold
    /\ links[1] < MatchThreshold
    /\ clicked # << 1 >> /\ opened = clicked
    /\ links[clicked[1]] = MatchThreshold

(***************************************************************************)
(* Properties of merge_files.                                              *)
(***************************************************************************)
\* The entries of all shards.
ShardEntries == UNION { Range(shards[f]) : f \in DOMAIN shards }

\* Entry x comes before entry y when the shards are concatenated in the
\* order of their names.
Before(x, y) ==
    \/ StrLess(x.file, y.file)
    \/ x.file = y.file /\ x.pos < y.pos

\* C9: the merged output holds every identifier of the shards exactly once;
\* the entry kept for it is its first occurrence in the concatenation of the
\* shards in sorted file-name order; and the kept entries are in the order
\* of that concatenation.
C9_FirstOccurrenceKept ==
    (pc = "mg_done" /\ DOMAIN shards # { }) =>
        /\ merged.exists
        /\ Range(merged.content) \subseteq ShardEntries
        /\ \A x \in ShardEntries :
              Cardinality({ k \in 1..Len(merged.content) :
                              merged.content[k].place_id = x.place_id }) = 1
        /\ \A k \in 1..Len(merged.content) :
              \A x \in ShardEntries :
                  x.place_id = merged.content[k].place_id =>
                      x = merged.content[k] \/ Before(merged.content[k], x)
        /\ \A a, b \in 1..Len(merged.content) :
              a < b => Before(merged.content[a], merged.content[b])

\* Identifier 1 is in the shards "10" and "2" and in "10" twice: the merged
\* output keeps the first entry of "10", which sorts before "2".
C9_Witness ==
    /\ pc = "mg_done" /\ DOMAIN shards = { << 49, 48 >>, << 50 >> }
    /\ Len(shards[<< 50 >>]) >= 1 /\ shards[<< 50 >>][1].place_id = 1
    /\ Len(shards[<< 49, 48 >>]) = 2
    /\ shards[<< 49, 48 >>][1].place_id = 1 /\ shards[<< 49, 48 >>][2].place_id = 1
    /\ merged.content = << [ place_id |-> 1, file |-> << 49, 48 >>, pos |-> 1 ] >>

(***************************************************************************)
(* Properties of clean_address.                                            *)
(***************************************************************************)
\* C10: clean_address is idempotent: where clean_address(x) is a string,
\* clean_address of that string is the same string.
C10_Idempotent == pc = "ca_twice" => twice = once

(***************************************************************************)
(* clean_website_url.  A URL is the sequence of its characters.            *)
(***************************************************************************)
\* The substrings the function tests for.
WrapperMark == << "g", "o", "o", "g", "l", "e", ".", "c", "o", "m", "/", "u", "r", "l" >>
QueryMark == << "?", "q", "=" >>
MapsMark == << "g", "o", "o", "g", "l", "e", ".", "c", "o", "m", "/", "m", "a", "p", "s" >>

\* The pieces the URLs of the model are made of: the wrapper's host and
\* path, the target parameter, a separator, the provider's map path plain
\* and percent-encoded, and an external host.
UrlAtoms ==
    { << "g", "o", "o", "g", "l", "e", ".", "c", "o", "m", "/", "u", "r", "l" >>,
      << "?", "q", "=" >>,
      << "&" >>,
      << "q", "=" >>,
      << "g", "o", "o", "g", "l", "e", ".", "c", "o", "m", "/", "m", "a", "p", "s" >>,
      << "g", "o", "o", "g", "l", "e", ".", "c", "o", "m", "%", "2", "F", "m", "a", "p", "s" >>,
      << "a", ".", "v", "n" >> }

\* The percent escapes urllib.parse.unquote decodes in these URLs.
HexPairs == { << "2", "F", "/" >>, << "2", "f", "/" >>, << "2", "6", "&" >> }

\* urllib.parse.unquote
RECURSIVE Unquote(_)
Unquote(s) ==
    IF s = << >> THEN << >>
    ELSE IF /\ Len(s) >= 3 /\ s[1] = "%"
            /\ \E h \in HexPairs : h[1] = s[2] /\ h[2] = s[3]
         THEN << (CHOOSE h \in HexPairs : h[1] = s[2] /\ h[2] = s[3])[3] >>
                 \o Unquote(SubSeq(s, 4, Len(s)))
         ELSE << Head(s) >> \o Unquote(Tail(s))

\* re.search(r'[?&]q=([^&]+)', s) matches at position k.
TargetAt(s, k) ==
    /\ k + 3 <= Len(s)
    /\ s[k] \in { "?", "&" } /\ s[k + 1] = "q" /\ s[k + 2] = "="
    /\ s[k + 3] # "&"

\* match.group(1) of the leftmost match: the characters up to the next &.
RECURSIVE UpToAmp(_)
UpToAmp(s) ==
    IF s = << >> \/ Head(s) = "&" THEN << >> ELSE << Head(s) >> \o UpToAmp(Tail(s))

Target(s) ==
    LET k == CHOOSE j \in 1..Len(s) :
                 TargetAt(s, j) /\ \A m \in 1..(j - 1) : ~TargetAt(s, m)
    IN UpToAmp(SubSeq(s, k + 3, Len(s)))

clean_website_url(url) ==
    IF url = NoStr \/ url = << >> THEN NoStr
    ELSE IF /\ Contains(url, WrapperMark) /\ Contains(url, QueryMark)
            /\ \E k \in 1..Len(url) : TargetAt(url, k)
         THEN Unquote(Target(url))
         ELSE IF Contains(url, MapsMark) THEN NoStr ELSE url

\* The URLs made of at most n pieces.
RECURSIVE Urls(_)
Urls(n) ==
    IF n = 0 THEN { << >> }
    ELSE LET S == Urls(n - 1) IN S \cup { s \o a : s \in S, a \in UrlAtoms }

\* The variables no call of a helper touches.
InitIdle ==
    /\ InitBatchRest
    /\ driver = None
    /\ seed = NoSeed /\ result = NoScrape /\ links = << >> /\ scan = NoScan
    /\ clicked = << >> /\ opened = << >> /\ invoked = << >> /\ errs = { }
    /\ shards = << >> /\ merged = NoFile
    /\ addr = << >> /\ once = << >> /\ twice = << >>

\* clean_website_url is about to be called on a URL.
InitWebsite ==
    /\ pc = "cw_call"
    /\ input \in Urls(MaxUrlAtoms)
    /\ output = << >> /\ ops = << >>
    /\ InitIdle

CleanWebsite ==
    /\ pc = "cw_call"
    /\ output' = clean_website_url(input)
    /\ pc' = "cw_done"
    /\ UNCHANGED << input, ops >>
    /\ UNCHANGED << batchVars, placeVars, mergeVars, cleanVars >>

NextWebsite == CleanWebsite

SpecWebsite == InitWebsite /\ [][NextWebsite]_vars

\* C11: clean_website_url never returns a URL of the map provider: what it
\* returns is absent or does not contain the provider's map path, also for
\* a redirect wrapper whose target is a map URL.
C11_NeverProviderUrl ==
    pc = "cw_done" => output = NoStr \/ ~Contains(output, MapsMark)

(***************************************************************************)
(* convert_relative_date.  A date is its proleptic ordinal (day 1 is      *)
(* 0001-01-01, the first day datetime can hold); strftime renders it.      *)
(***************************************************************************)
\* None where a date is expected.
NoDate == 0

\* timedelta holds at most this many days.
MaxDeltaDays == 999999999

\* The unit tokens of lines 558-564, in the order they are tested, with the
\* days one unit stands for.
UnitTokens ==
    << [ days |-> 1,   tokens |-> { << "d", "a", "y" >>, << "n", "g", "a2", "y" >>, << "n", "g", "a", "y" >> } ],
       [ days |-> 7,   tokens |-> { << "w", "e", "e", "k" >>, << "t", "u", "a62", "n" >>, << "t", "u", "a", "n" >> } ],
       [ days |-> 30,  tokens |-> { << "m", "o", "n", "t", "h" >>, << "t", "h", "a1", "n", "g" >>, << "t", "h", "a", "n", "g" >> } ],
       [ days |-> 365, tokens |-> { << "y", "e", "a", "r" >>, << "n", "a8", "m" >>, << "n", "a", "m" >> } ] >>

\* The pieces the phrases of the model are made of.
PhraseAtoms ==
    { << "2" >>, << "0" >>, << "9", "9" >>, << " " >>,
      << "n", "g", "a2", "y" >>,
      << "w", "e", "e", "k" >>,
      << "T", "h", "a1", "n", "g" >>,
      << "n", "a8", "m" >>,
      << "n", "a", "m" >>,
      << " ", "t", "h", "a1", "n", "g", " ", "t", "r", "u7", "o71", "c" >> }

DigitValue(c) ==
    CASE c = "0" -> 0 [] c = "1" -> 1 [] c = "2" -> 2 [] c = "3" -> 3
      [] c = "4" -> 4 [] c = "5" -> 5 [] c = "6" -> 6 [] c = "7" -> 7
      [] c = "8" -> 8 [] c = "9" -> 9

\* int() of the run of digits that starts at s[k], acc the value so far.
RECURSIVE DigitRun(_, _, _)
DigitRun(s, k, acc) ==
    IF k > Len(s) \/ ~IsDigit(s[k]) THEN acc
    ELSE DigitRun(s, k + 1, 10 * acc + DigitValue(s[k]))

\* Lines 555-556: the first run of digits, 1 if there is none.
LeadingNumber(s) ==
    IF \E k \in 1..Len(s) : IsDigit(s[k])
    THEN DigitRun(s, CHOOSE k \in 1..Len(s) :
                        IsDigit(s[k]) /\ \A j \in 1..(k - 1) : ~IsDigit(s[j]), 0)
    ELSE 1

HasUnit(text, u) == \E tok \in UnitTokens[u].tokens : Contains(text, tok)

\* now - timedelta(days) with no check of what can be held.
DaysBefore_Unchecked(now, days) == now - days

\* now - timedelta(days): OverflowError, caught at line 570, if the
\* timedelta or the date cannot be held.
DaysBefore(now, days) ==
    IF days > MaxDeltaDays \/ now - days < 1 THEN NoDate ELSE now - days

\* the if/elif chain of lines 558-567.
RECURSIVE UnitChain(_, _, _, _)
UnitChain(text, num, now, u) ==
    IF u > Len(UnitTokens) THEN NoDate
    ELSE IF HasUnit(text, u) THEN DaysBefore(now, num * UnitTokens[u].days)
    ELSE UnitChain(text, num, now, u + 1)

convert_relative_date(relative_time, now) ==
    IF relative_time = NoStr \/ relative_time = << >> THEN NoDate
    ELSE LET text == LowerStr(relative_time)
         IN UnitChain(text, LeadingNumber(text), now, 1)

\* The phrases made of at most n pieces.
RECURSIVE Phrases(_)
Phrases(n) ==
    IF n = 0 THEN { << >> }
    ELSE LET S == Phrases(n - 1) IN S \cup { s \o a : s \in S, a \in PhraseAtoms }

\* datetime.now() at the call: 2024-09-03 and 2026-11-05.
CaptureDays == { 739132, 739925 }

\* convert_relative_date is about to be called on a phrase.
InitRelDate ==
    /\ pc = "rd_call"
    /\ input \in [ phrase : Phrases(MaxPhraseAtoms), now : CaptureDays ]
    /\ output = NoDate /\ ops = << >>
    /\ InitIdle

ConvertRelDate ==
    /\ pc = "rd_call"
    /\ output' = convert_relative_date(input.phrase, input.now)
    /\ pc' = "rd_done"
    /\ UNCHANGED << input, ops >>
    /\ UNCHANGED << batchVars, placeVars, mergeVars, cleanVars >>

NextRelDate == ConvertRelDate

SpecRelDate == InitRelDate /\ [][NextRelDate]_vars

\* The phrase has a number, and the unit token tested first among those it
\* contains is that of unit u.
HasNumber(text) == \E k \in 1..Len(text) : IsDigit(text[k])
AnyUnit(text) == \E u \in 1..Len(UnitTokens) : HasUnit(text, u)
FirstUnit(text) ==
    CHOOSE u \in 1..Len(UnitTokens) :
        HasUnit(text, u) /\ \A v \in 1..(u - 1) : ~HasUnit(text, v)

\* "2 tha1ng tru7o71c", the phrase of the specification's example.
TwoMonthsAgo ==
    << "2", " ", "t", "h", "a1", "n", "g", " ", "t", "r", "u7", "o71", "c" >>

\* C12, as claimed: a phrase with a number n and a unit token resolves to the
\* capture date minus n*d days, d the days of a unit it names, whatever n is.
C12_Original ==
    pc = "rd_done" =>
       LET text == LowerStr(input.phrase) IN
       HasNumber(text) /\ AnyUnit(text) =>
          \E u \in 1..Len(UnitTokens) :
              /\ HasUnit(text, u)
              /\ output = input.now - LeadingNumber(text) * UnitTokens[u].days

\* C12: a phrase with a number n and a unit token resolves to the capture
\* date minus n*d days (d = 1, 7, 30, 365 for day, week, month, year; the
\* unit is the first of day, week, month, year the phrase contains) when
\* that day is not before 0001-01-01 and to absent when it is; "2 months
\* ago" in Vietnamese resolves to 60 days before; with no unit token the
\* result is absent.
C12_DateOrAbsentOnOverflow ==
    pc = "rd_done" =>
       LET text == LowerStr(input.phrase) IN
       /\ ~AnyUnit(text) => output = NoDate
       /\ HasNumber(text) /\ AnyUnit(text) =>
             LET day == input.now - LeadingNumber(text) * UnitTokens[FirstUnit(text)].days
             IN output = IF day >= 1 THEN day ELSE NoDate
       /\ input.phrase = TwoMonthsAgo => output = input.now - 60

\* The example phrase was resolved to 60 days before the capture date.
C12_Witness ==
    /\ pc = "rd_done"
    /\ input.phrase = TwoMonthsAgo
    /\ output = input.now - 60

(***************************************************************************)
(* _get_rating.  A number is held in thousandths (4.5 is 4500); the page   *)
(* gives, for each strategy, what its element lookup and its regular       *)
(* expressions yield.                                                      *)
(***************************************************************************)
\* None where a number is expected.
NoNumber == -1

\* What (\d+[,.]?\d*) can capture in front of "sao" or "star".
RatingTexts ==
    { << "0" >>, << "5" >>, << "4", ",", "5" >>, << "4", ".", "5" >>,
      << "5", "." >>, << "5", ",", "1" >>, << "4", "5" >> }

\* What (\d+[\.,]?\d*) can capture in front of the word for reviews.
CountTexts == { << "1", "2" >>, << "1", ".", "2" >> }

\* The stripped texts of the div.fontDisplayLarge elements.
LargeTexts == { << "4", ",", "5" >>, << "4", "5" >>, << "0" >>, << "n", "/", "a" >> }

\* What \((\d{1,3}(?:[,\.]\d{3})*)\) can capture in a button's text.
ButtonTexts == { << "1", "2" >>, << "1", ",", "2", "3", "4" >> }

\* s without its separators: .replace('.', '').replace(',', '')
RECURSIVE DropSeparators(_)
DropSeparators(s) ==
    IF s = << >> THEN << >>
    ELSE IF Head(s) \in { ",", "." } THEN DropSeparators(Tail(s))
    ELSE << Head(s) >> \o DropSeparators(Tail(s))

\* int(s.replace('.', '').replace(',', ''))
ParseCount(s) == DigitRun(DropSeparators(s), 1, 0)

RECURSIVE Pow10(_)
Pow10(n) == IF n = 0 THEN 1 ELSE 10 * Pow10(n - 1)

\* float(s.replace(',', '.')), in thousandths, s of the shape \d+[,.]?\d*
\* with at most three decimals.
ParseFloat(s) ==
    LET p == IF \E k \in 1..Len(s) : ~IsDigit(s[k])
             THEN CHOOSE k \in 1..Len(s) : ~IsDigit(s[k])
             ELSE Len(s) + 1
        frac == SubSeq(s, p + 1, Len(s))
    IN DigitRun(s, 1, 0) * 1000 + DigitRun(frac, 1, 0) * Pow10(3 - Len(frac))

\* re.match(r'^\d+[,.]?\d*$', s)
IsNumeral(s) ==
    /\ s # << >> /\ IsDigit(s[1])
    /\ \A k \in 1..Len(s) : IsDigit(s[k]) \/ s[k] \in { ",", "." }
    /\ Cardinality({ k \in 1..Len(s) : ~IsDigit(s[k]) }) <= 1

\* Lines 704-711 and 717-724: a label strategy on what its label yields.
\* lab.raised: the lookup or the attribute read raises.
LabelStrategy(acc, lab) ==
    IF lab.raised THEN acc
    ELSE [ rating |-> IF lab.rating = NoStr THEN acc.rating ELSE ParseFloat(lab.rating),
           count |-> IF lab.count = NoStr THEN acc.count ELSE ParseCount(lab.count) ]

\* The range test of line 735.
InRange(val) == 1000 <= val /\ val <= 5000

\* Lines 730-737: the first large-display text that is a numeral in range.
RECURSIVE LargeDisplay(_)
LargeDisplay(divs) ==
    IF divs = << >> THEN NoNumber
    ELSE IF IsNumeral(Head(divs)) /\ InRange(ParseFloat(Head(divs)))
         THEN ParseFloat(Head(divs))
         ELSE LargeDisplay(Tail(divs))

get_rating(page) ==
    LET a == LabelStrategy([ rating |-> NoNumber, count |-> NoNumber ], page.vi)
        b == IF a.rating = NoNumber THEN LabelStrategy(a, page.en) ELSE a
        c == IF b.rating = NoNumber
             THEN [ b EXCEPT !.rating = LargeDisplay(page.large) ] ELSE b
    IN IF c.count = NoNumber /\ page.button # NoStr
       THEN [ c EXCEPT !.count = ParseCount(page.button) ] ELSE c

Labels ==
    { [ raised |-> TRUE, rating |-> NoStr, count |-> NoStr ] } \cup
    [ raised : { FALSE }, rating : RatingTexts \cup { NoStr }, count : CountTexts \cup { NoStr } ]

RECURSIVE ListsOf(_, _)
ListsOf(S, n) ==
    IF n = 0 THEN { << >> }
    ELSE LET L == ListsOf(S, n - 1) IN L \cup { Append(l, x) : l \in L, x \in S }

RatingPages ==
    [ vi : Labels, en : Labels, large : ListsOf(LargeTexts, MaxDivs),
      button : ButtonTexts \cup { NoStr } ]

\* _get_rating is about to be called on a page.
InitRating ==
    /\ pc = "gr_call"
    /\ input \in RatingPages
    /\ output = << >> /\ ops = << >>
    /\ InitIdle

GetRating ==
    /\ pc = "gr_call"
    /\ output' = get_rating(input)
    /\ pc' = "gr_done"
    /\ UNCHANGED << input, ops >>
    /\ UNCHANGED << batchVars, placeVars, mergeVars, cleanVars >>

NextRating == GetRating

SpecRating == InitRating /\ [][NextRating]_vars

\* C13: the rating returned is absent or between 0.0 and 5.0 and the count
\* is absent or a non-negative integer, whichever strategy produced them.
C13_RatingInRange ==
    pc = "gr_done" =>
       /\ output.rating = NoNumber \/ (0 <= output.rating /\ output.rating <= 5000)
       /\ output.count = NoNumber \/ output.count >= 0

(***************************************************************************)
(* scrape_csv_file on an index range.  input is the call: the seed list    *)
(* read from the CSV file, start_index and end_index.                      *)
(***************************************************************************)
\* The slice that keeps everything from start on.
Slice_OpenEnd(l, start, end) == SubSeq(l, Min(start, Len(l)) + 1, Len(l))

\* l[start:end] for 0 <= start and 0 <= end (line 928): both indices are
\* clamped to the length of the list.
Slice(l, start, end) == SubSeq(l, Min(start, Len(l)) + 1, Min(end, Len(l)))

\* scrape_csv_file entered with a range: the seeds are loaded and sliced,
\* the scraper is constructed (no driver yet) and data is empty.
InitRange ==
    /\ \E n \in 0..MaxCsv, dup \in BOOLEAN, start \in 0..(MaxCsv + 1), end \in 0..(MaxCsv + 1) :
          /\ start <= end
          /\ input = [ csv |-> [ k \in 1..n |-> MkSeed(k, dup) ],
                       start_index |-> start, end_index |-> end ]
    /\ places = Slice(input.csv, input.start_index, input.end_index)
    /\ output = << >> /\ ops = << >>
    /\ world \in BatchPages
    /\ pc = "loop" /\ i = 0 /\ data = << >> /\ disk = NoFile
    /\ driver = None /\ contrib = << >> /\ failed = { } /\ initLog = << >>
    /\ sessions = [ created |-> 0, quit |-> 0 ]
    /\ InitRest

SpecRange == InitRange /\ [][Next]_vars

\* The zero-based positions of the seed list that lie in [start, end).
InRangePositions ==
    { p \in 0..(Len(input.csv) - 1) : input.start_index <= p /\ p < input.end_index }

\* C14: a run on [start, end), 0 <= start <= end, attempts the seeds at the
\* zero-based positions p with start <= p < end, each once and in list order:
\* the k-th attempt is on the seed at position start + k - 1, no attempt is
\* on another seed, a run that ends normally has attempted them all; and the
\* seeds of [a, b) followed by those of [b, c) are the seeds of [a, c).
C14_RangeAttempted ==
    /\ Len(places) = Cardinality(InRangePositions)
    /\ i <= Len(places)
    /\ \A k \in 1..i :
          /\ (input.start_index + k - 1) \in InRangePositions
          /\ places[k] = input.csv[input.start_index + k]
    /\ pc \in { "written", "done" } => i = Cardinality(InRangePositions)
    /\ \A a, b, c \in 0..(MaxCsv + 1) :
          a <= b /\ b <= c =>
             Slice(input.csv, a, b) \o Slice(input.csv, b, c) = Slice(input.csv, a, c)

\* A run on a range that starts after the first seed and ends before the
\* last has ended normally, with a seed that failed.
C14_Witness ==
    /\ pc = "done"
    /\ input.start_index = 1 /\ input.end_index = 4 /\ Len(input.csv) = MaxCsv
    /\ i = 3 /\ failed # { }
    /\ places[1] = input.csv[2]

(***************************************************************************)
(* _get_address.  The page gives what each strategy's lookups return: the  *)
(* aria-label of the address button, the aria-labels of all buttons, and   *)
(* the texts of the address buttons of the parsed page source.             *)
(***************************************************************************)
\* "D9i5a chi3: " and "Address: ", and the same without the blank.
LabelVi == << "D9", "i5", "a", " ", "c", "h", "i3", ":", " " >>
LabelEn == << "A", "d", "d", "r", "e", "s", "s", ":", " " >>
PrefixVi == << "D9", "i5", "a", " ", "c", "h", "i3", ":" >>
PrefixEn == << "A", "d", "d", "r", "e", "s", "s", ":" >>

\* s.startswith(pre)
StartsWith(s, pre) == Len(s) >= Len(pre) /\ SubSeq(s, 1, Len(pre)) = pre

\* s.replace(pat, "")
RECURSIVE Remove(_, _)
Remove(s, pat) ==
    IF s = << >> THEN << >>
    ELSE IF StartsWith(s, pat) THEN Remove(SubSeq(s, Len(pat) + 1, Len(s)), pat)
    ELSE << Head(s) >> \o Remove(Tail(s), pat)

\* s.split(":", 1)[-1]: what follows the first colon, s if there is none.
AfterColon(s) ==
    IF \E k \in 1..Len(s) : s[k] = ":"
    THEN SubSeq(s, (CHOOSE k \in 1..Len(s) :
                        s[k] = ":" /\ \A j \in 1..(k - 1) : s[j] # ":") + 1, Len(s))
    ELSE s

\* The aria-labels of the model's buttons.
AriaLabels ==
    { LabelEn \o << "t", "p", " ", "x", "x" >>,
      LabelEn \o << " ", "v", "n", " ", " ", "x", " " >>,
      LabelEn \o << "x", "x", "x", "x", "x" >>,
      LabelVi \o << "t", "p", " ", "x", "x" >>,
      << "x", " ", "t", "p", " ", "x", "x" >> }

\* The texts of the model's div.Io6YTe elements, as get_text(strip=True)
\* gives them.
DivTexts == { << "t", "p", " ", "x", "x" >>, << "v", "n", " ", " ", "x" >>, << "x", "x", "x", "x", "x" >> }

\* Lines 166-175.  aria is NoStr when the lookup raises or the button has no
\* aria-label.
Strategy1(aria) ==
    IF aria = NoStr \/ aria = << >> THEN NoStr
    ELSE clean_address(Strip(Remove(Remove(aria, LabelVi), LabelEn)))

\* Lines 178-188: the buttons in turn; reading the label of button number
\* raiseAt raises (0: none does), which ends the strategy.
RECURSIVE Strategy2(_, _, _)
Strategy2(arias, k, raiseAt) ==
    IF k > Len(arias) \/ k = raiseAt THEN NoStr
    ELSE IF /\ StartsWith(arias[k], PrefixVi) \/ StartsWith(arias[k], PrefixEn)
            /\ clean_address(Strip(AfterColon(arias[k]))) # NoStr
         THEN clean_address(Strip(AfterColon(arias[k])))
         ELSE Strategy2(arias, k + 1, raiseAt)

\* Lines 191-202: the address buttons of the parsed source in turn; raised:
\* reading page_source raises.
RECURSIVE Strategy3(_, _)
Strategy3(texts, raised) ==
    IF raised \/ texts = << >> THEN NoStr
    ELSE IF clean_address(Head(texts)) # NoStr THEN clean_address(Head(texts))
    ELSE Strategy3(Tail(texts), raised)

\* The strategies tried last first.
FirstOf_Reversed(y1, y2, y3) ==
    IF y3 # NoStr THEN y3 ELSE IF y2 # NoStr THEN y2 ELSE y1

\* The first strategy that returned a value wins.
FirstOf(y1, y2, y3) ==
    IF y1 # NoStr THEN y1 ELSE IF y2 # NoStr THEN y2 ELSE y3

get_address(page) ==
    FirstOf(Strategy1(page.s1), Strategy2(page.s2, 1, page.raiseAt),
            Strategy3(page.s3, page.raised3))

AddressPages ==
    { pg \in [ s1 : AriaLabels \cup { NoStr }, s2 : ListsOf(AriaLabels, MaxButtons),
               raiseAt : 0..MaxButtons, s3 : ListsOf(DivTexts, MaxButtons),
               raised3 : BOOLEAN ] :
        /\ pg.raiseAt <= Len(pg.s2)
        /\ pg.raised3 => pg.s3 = << >> }

\* _get_address is about to be called on a page.
InitAddress ==
    /\ pc = "ga_call"
    /\ input \in AddressPages
    /\ output = << >> /\ ops = << >>
    /\ InitIdle

GetAddress ==
    /\ pc = "ga_call"
    /\ output' = get_address(input)
    /\ pc' = "ga_done"
    /\ UNCHANGED << input, ops >>
    /\ UNCHANGED << batchVars, placeVars, mergeVars, cleanVars >>

NextAddress == GetAddress

SpecAddress == InitAddress /\ [][NextAddress]_vars

\* The strings each strategy hands to clean_address, in the order it does,
\* up to the point where it raises.
Candidates1 ==
    IF input.s1 = NoStr \/ input.s1 = << >> THEN << >>
    ELSE << Strip(Remove(Remove(input.s1, LabelVi), LabelEn)) >>

Reached2 ==
    { k \in 1..Len(input.s2) :
        /\ input.raiseAt = 0 \/ k < input.raiseAt
        /\ StartsWith(input.s2[k], PrefixVi) \/ StartsWith(input.s2[k], PrefixEn) }

Accepted2 == { k \in Reached2 : clean_address(Strip(AfterColon(input.s2[k]))) # NoStr }

Accepted3 ==
    { k \in 1..Len(input.s3) : ~input.raised3 /\ clean_address(input.s3[k]) # NoStr }

\* Every string some strategy hands to clean_address.
HandedToCleaner ==
    { Candidates1[k] : k \in 1..Len(Candidates1) }
      \cup { Strip(AfterColon(input.s2[k])) : k \in Reached2 }
      \cup { input.s3[k] : k \in { j \in 1..Len(input.s3) : ~input.raised3 } }

Least(S) == CHOOSE k \in S : \A j \in S : k <= j

Yields1 == Candidates1 # << >> /\ clean_address(Candidates1[1]) # NoStr
Yields2 == Accepted2 # { }
Yields3 == Accepted3 # { }

\* C15: _get_address returns the cleaned value of the earliest of its three
\* strategies that yields a string clean_address accepts (within a strategy,
\* the first such string it reaches); a strategy that raises or yields only
\* rejected strings is a miss; the result is absent exactly when no strategy
\* yields an accepted string, and a returned value is what clean_address
\* returned for a string of the page.
C15_FirstAcceptedWins ==
    pc = "ga_done" =>
       /\ Yields1 => output = clean_address(Candidates1[1])
       /\ ~Yields1 /\ Yields2 =>
             output = clean_address(Strip(AfterColon(input.s2[Least(Accepted2)])))
       /\ ~Yields1 /\ ~Yields2 /\ Yields3 =>
             output = clean_address(input.s3[Least(Accepted3)])
       /\ output = NoStr <=> ~(Yields1 \/ Yields2 \/ Yields3)
       /\ output # NoStr => \E c \in HandedToCleaner : output = clean_address(c)

\* The first strategy found nothing, the second raised on its first button,
\* the third rejected its first text and returned the second one cleaned.
C15_Witness ==
    /\ pc = "ga_done"
    /\ input.s1 = NoStr
    /\ Len(input.s2) = 2 /\ input.raiseAt = 1
    /\ Len(input.s3) = 2 /\ clean_address(input.s3[1]) = NoStr
    /\ output = << "v", "n", " ", "x" >>
    /\ output # input.s3[2]

(***************************************************************************)
(* _get_comments, step by step.  The page gives what the driver calls do;  *)
(* output holds the locals: the parsed snapshot, the loop position, seen   *)
(* and comments.  A snapshot records how many "show more" clicks had       *)
(* succeeded when it was read.                                             *)
(***************************************************************************)
\* num: the default of the signature and the values below it that matter.
RequestedCounts == { 0, 1, 3 }

\* What the tab lookup and click can do, and the scroll.
TabOutcomes == { "find_raises", "no_tab", "click_ok", "click_raises" }
ScrollOutcomes == { "find_raises", "script_raises", "ok" }

\* A "show more" button: displayed and clicked, displayed with a click that
\* raises, or not displayed.
MoreButtons == { "click_ok", "click_raises", "hidden" }

\* A review div of the page source: its data-review-id (NoId: empty) and its
\* text, longer than 5 characters, shorter, or one whose parsing raises.
ReviewDivs ==
    { [ rid |-> 1, text |-> "long" ], [ rid |-> 2, text |-> "long" ],
      [ rid |-> 1, text |-> "short" ], [ rid |-> NoId, text |-> "long" ],
      [ rid |-> 2, text |-> "raises" ] }

CommentPages ==
    [ num : RequestedCounts, tabs : TabOutcomes, scroll : ScrollOutcomes,
      more : ListsOf(MoreButtons, 2) \cup { << "find_raises" >> },
      more2 : { << >>, << "click_ok" >>, << "find_raises" >> },
      source : { "ok", "raises" },
      reviews : ListsOf(ReviewDivs, MaxReviews) ]

NoSoup == [ read |-> FALSE, expanded |-> 0 ]
NoLocals == [ soup |-> NoSoup, k |-> 0, seen |-> { }, comments |-> << >> ]

\* The successful "show more" clicks among the operations os.
Expanded(os) == Cardinality({ j \in 1..Len(os) : os[j] = "more_click_ok" })

\* The blocks in another order: the snapshot read before the expansion.
StepAfter_SnapshotFirst(step) ==
    CASE step = "gc_scroll" -> "gc_snapshot"
      [] step = "gc_snapshot" -> "gc_more"
      [] step = "gc_more" -> "gc_parse"

\* The order of the blocks of lines 455-499: scroll, expand, snapshot, parse.
StepAfter(step) ==
    CASE step = "gc_scroll" -> "gc_more"
      [] step = "gc_more" -> "gc_snapshot"
      [] step = "gc_snapshot" -> "gc_parse"

\* _get_comments is about to be called on a page.
InitComments ==
    /\ pc = "gc_call"
    /\ input \in CommentPages
    /\ output = NoLocals /\ ops = << >>
    /\ InitIdle

\* Lines 448-453: the Reviews tab is looked up and clicked.  Whatever raises
\* here is caught at line 540 and the empty list is returned.
GC_Tabs ==
    /\ pc = "gc_call"
    /\ ops' = CASE input.tabs = "click_ok" -> Append(ops, "tab_click_ok")
                [] input.tabs = "click_raises" -> Append(ops, "tab_click_raises")
                [] OTHER -> ops
    /\ pc' = IF input.tabs \in { "find_raises", "click_raises" } THEN "gc_done" ELSE "gc_scroll"
    /\ UNCHANGED << input, output >>
    /\ UNCHANGED << batchVars, placeVars, mergeVars, cleanVars >>

\* Lines 456-462: three scrolls; what raises is swallowed at line 461.
GC_Scroll ==
    /\ pc = "gc_scroll"
    /\ ops' = CASE input.scroll = "ok" -> ops \o << "scroll", "scroll", "scroll" >>
                [] input.scroll = "script_raises" -> Append(ops, "scroll")
                [] OTHER -> ops
    /\ pc' = StepAfter("gc_scroll")
    /\ UNCHANGED << input, output >>
    /\ UNCHANGED << batchVars, placeVars, mergeVars, cleanVars >>

\* The clicks of one loop over "show more" buttons (lines 470-479, 483-489):
\* a click that raises is skipped with continue.
RECURSIVE ClickAll(_)
ClickAll(btns) ==
    IF btns = << >> THEN << >>
    ELSE (CASE Head(btns) = "click_ok" -> << "more_click_ok" >>
            [] Head(btns) = "click_raises" -> << "more_click_raises" >>
            [] OTHER -> << >>) \o ClickAll(Tail(btns))

\* Lines 465-492: both loops; a lookup that raises ends the block (line 491).
GC_Expand ==
    /\ pc = "gc_more"
    /\ ops' = IF input.more = << "find_raises" >> THEN ops
              ELSE IF input.more2 = << "find_raises" >> THEN ops \o ClickAll(input.more)
              ELSE ops \o ClickAll(input.more) \o ClickAll(input.more2)
    /\ pc' = StepAfter("gc_more")
    /\ UNCHANGED << input, output >>
    /\ UNCHANGED << batchVars, placeVars, mergeVars, cleanVars >>

\* Line 498: driver.page_source is read and parsed.
GC_Snapshot ==
    /\ pc = "gc_snapshot"
    /\ IF input.source = "raises"
       THEN /\ ops' = Append(ops, "snapshot_raises")
            /\ pc' = "gc_done"
            /\ UNCHANGED output
       ELSE /\ ops' = Append(ops, "snapshot")
            /\ output' = [ output EXCEPT !.soup = [ read |-> TRUE, expanded |-> Expanded(ops) ] ]
            /\ pc' = StepAfter("gc_snapshot")
    /\ UNCHANGED input
    /\ UNCHANGED << batchVars, placeVars, mergeVars, cleanVars >>

\* Line 536: the test that ends the loop, made after the append.
Enough(before, after, num) == after >= num

\* Lines 502-539, one review div of the snapshot.
GC_Parse ==
    /\ pc = "gc_parse"
    /\ IF output.k >= Len(input.reviews)
       THEN pc' = "gc_done" /\ UNCHANGED output
       ELSE LET div == input.reviews[output.k + 1]
                fresh == div.rid # NoId /\ div.rid \notin output.seen
                taken == fresh /\ div.text = "long"
                cs == IF taken
                      THEN Append(output.comments,
                                  [ rid |-> div.rid, expanded |-> output.soup.expanded ])
                      ELSE output.comments
            IN /\ output' = [ output EXCEPT !.k = @ + 1,
                                            !.seen = IF fresh THEN @ \cup { div.rid } ELSE @,
                                            !.comments = cs ]
               /\ pc' = IF /\ fresh /\ div.text # "raises"
                           /\ Enough(Len(output.comments), Len(cs), input.num)
                        THEN "gc_done" ELSE "gc_parse"
    /\ UNCHANGED << input, ops >>
    /\ UNCHANGED << batchVars, placeVars, mergeVars, cleanVars >>

NextComments == GC_Tabs \/ GC_Scroll \/ GC_Expand \/ GC_Snapshot \/ GC_Parse

SpecComments == InitComments /\ [][NextComments]_vars

SnapshotOps == { "snapshot", "snapshot_raises" }

\* C16: in every execution of _get_comments the page snapshot is read at
\* most once and no driver operation follows it: the tab click, the scrolls
\* and every "show more" click come before it; and every review returned was
\* parsed from that snapshot, taken after all the expansion clicks that the
\* execution makes.
C16_NoClickAfterSnapshot ==
    /\ \A j \in 1..Len(ops) : ops[j] \in SnapshotOps => j = Len(ops)
    /\ output.comments # << >> => output.soup.read /\ ops[Len(ops)] = "snapshot"
    /\ \A k \in 1..Len(output.comments) :
          /\ output.comments[k].expanded = output.soup.expanded
          /\ output.comments[k].expanded = Expanded(ops)

\* The tab was activated, the page scrolled, two buttons expanded, and a
\* review was returned from the snapshot read after that.
C16_Witness ==
    /\ pc = "gc_done"
    /\ ops = << "tab_click_ok", "scroll", "scroll", "scroll",
                "more_click_ok", "more_click_raises", "more_click_ok", "snapshot" >>
    /\ Len(output.comments) = 1
    /\ output.comments[1].expanded = 2

\* C17: the list returned by _get_comments(num), num >= 0, has at most num
\* entries.
C17_AtMostRequested ==
    pc = "gc_done" => Len(output.comments) <= input.num

(***************************************************************************)
(* _get_images.  The page gives the src attribute of each img element.     *)
(***************************************************************************)
\* The hosts of line 680 and the small-width tokens of line 681.
CdnHosts == { << "g", "o", "o", "g", "l", "e", "u", "s", "e", "r", "c", "o", "n", "t", "e", "n", "t", ".", "c", "o", "m" >>, << "g", "g", "p", "h", "t", ".", "c", "o", "m" >> }
WidthMark == << "=", "w" >>
SmallWidthTokens ==
    { << "=", "w", "3", "0" >>,
      << "=", "w", "4", "8" >>,
      << "=", "w", "2", "4" >>,
      << "=", "w", "3", "2" >>,
      << "=", "w", "6", "4" >>,
      << "=", "w", "3", "6" >> }

\* Reading the src attribute of this element raises.
Stale == << "<stale>" >>

\* The src attributes of the model's img elements.
ImageSrcs ==
    { << "l", "h", "3", ".", "g", "o", "o", "g", "l", "e", "u", "s", "e", "r", "c", "o", "n", "t", "e", "n", "t", ".", "c", "o", "m", "/", "a", "=", "w", "4", "0", "8", "-", "h", "3", "0", "6" >>,
      << "l", "h", "3", ".", "g", "o", "o", "g", "l", "e", "u", "s", "e", "r", "c", "o", "n", "t", "e", "n", "t", ".", "c", "o", "m", "/", "a", "=", "w", "1", "0", "0" >>,
      << "l", "h", "3", ".", "g", "o", "o", "g", "l", "e", "u", "s", "e", "r", "c", "o", "n", "t", "e", "n", "t", ".", "c", "o", "m", "/", "b", "=", "w", "3", "0", "0", "-", "h", "2", "0", "0" >>,
      << "l", "h", "3", ".", "g", "o", "o", "g", "l", "e", "u", "s", "e", "r", "c", "o", "n", "t", "e", "n", "t", ".", "c", "o", "m", "/", "c", "=", "w", "6", "4" >>,
      << "l", "h", "5", ".", "g", "g", "p", "h", "t", ".", "c", "o", "m", "/", "d", "=", "w", "1", "2", "0" >>,
      << "e", "x", "a", "m", "p", "l", "e", ".", "c", "o", "m", "/", "e", "=", "w", "5", "0", "0" >>,
      << "l", "h", "3", ".", "g", "o", "o", "g", "l", "e", "u", "s", "e", "r", "c", "o", "n", "t", "e", "n", "t", ".", "c", "o", "m", "/", "f", "=", "w", "9", "9" >>,
      << "l", "h", "3", ".", "g", "o", "o", "g", "l", "e", "u", "s", "e", "r", "c", "o", "n", "t", "e", "n", "t", ".", "c", "o", "m", "/", "g", "=", "w", "1", "0", "0", "0" >>,
      << "l", "h", "3", ".", "g", "o", "o", "g", "l", "e", "u", "s", "e", "r", "c", "o", "n", "t", "e", "n", "t", ".", "c", "o", "m", "/", "h" >>,
      NoStr, Stale }

\* re.search(r'=w(\d+)', s) matches at position k.
WidthAt(s, k) ==
    /\ k + 2 <= Len(s)
    /\ s[k] = "=" /\ s[k + 1] = "w" /\ IsDigit(s[k + 2])

HasWidth(s) == \E k \in 1..Len(s) : WidthAt(s, k)

\* int(match.group(1)) of the leftmost match.
Width(s) ==
    DigitRun(s, (CHOOSE k \in 1..Len(s) :
                    WidthAt(s, k) /\ \A j \in 1..(k - 1) : ~WidthAt(s, j)) + 2, 0)

\* src.split('=w')[0]
Base(s) ==
    SubSeq(s, 1, (CHOOSE k \in 1..Len(s) :
                     /\ k < Len(s) /\ s[k] = "=" /\ s[k + 1] = "w"
                     /\ \A j \in 1..(k - 1) : ~(s[j] = "=" /\ s[j + 1] = "w")) - 1)

OnCdn(s) == \E h \in CdnHosts : Contains(s, h)

\* Lines 679-685: the tests an image passes before its base is looked at.
Eligible(src) ==
    /\ src # NoStr /\ src # Stale /\ src # << >>
    /\ OnCdn(src) /\ Contains(src, WidthMark)
    /\ ~\E t \in SmallWidthTokens : Contains(src, t)
    /\ HasWidth(src) /\ Width(src) >= MinImageWidth

\* Lines 677-693: the loop over the img elements.
RECURSIVE ScanImages(_, _, _)
ScanImages(imgs, seen, images) ==
    IF imgs = << >> \/ Len(images) >= MaxImages THEN images
    ELSE IF Eligible(Head(imgs)) /\ Base(Head(imgs)) \notin seen
         THEN ScanImages(Tail(imgs), seen \cup { Base(Head(imgs)) }, Append(images, Head(imgs)))
         ELSE ScanImages(Tail(imgs), seen, images)

\* Whatever raises before the loop (the tab click, the scroll, the lookup)
\* is caught at line 694 and the empty list is returned.
get_images(page) ==
    IF page.before = "raises" THEN << >> ELSE ScanImages(page.imgs, { }, << >>)

ImagePages == [ before : { "ok", "raises" }, imgs : ListsOf(ImageSrcs, MaxImgs) ]

\* _get_images is about to be called on a page.
InitImages ==
    /\ pc = "gi_call"
    /\ input \in ImagePages
    /\ output = << >> /\ ops = << >>
    /\ InitIdle

GetImages ==
    /\ pc = "gi_call"
    /\ output' = get_images(input)
    /\ pc' = "gi_done"
    /\ UNCHANGED << input, ops >>
    /\ UNCHANGED << batchVars, placeVars, mergeVars, cleanVars >>

NextImages == GetImages

SpecImages == InitImages /\ [][NextImages]_vars

\* The reference filter: on the CDN, with a width token of at least 100.
Wanted(src) ==
    /\ src # NoStr /\ src # Stale
    /\ OnCdn(src) /\ HasWidth(src) /\ Width(src) >= MinImageWidth

RECURSIVE Reference(_, _, _)
Reference(imgs, seen, kept) ==
    IF imgs = << >> \/ Len(kept) >= MaxImages THEN kept
    ELSE IF Wanted(Head(imgs)) /\ Base(Head(imgs)) \notin seen
         THEN Reference(Tail(imgs), seen \cup { Base(Head(imgs)) }, Append(kept, Head(imgs)))
         ELSE Reference(Tail(imgs), seen, kept)

\* C18: the images returned are those of the reference filter over the img
\* elements in order: on the CDN, width token at least 100, base URL not
\* kept before, until 3 are kept; no image of width 100 or more is dropped
\* as a thumbnail.
C18_EqualsReference ==
    pc = "gi_done" /\ input.before = "ok" => output = Reference(input.imgs, { }, << >>)

(***************************************************************************)
(* _get_category.  The page gives the text of each category button and of  *)
(* the category display button.                                            *)
(***************************************************************************)
\* A text of n letters.
RECURSIVE Letters(_)
Letters(n) == IF n = 0 THEN << >> ELSE Append(Letters(n - 1), "x")

\* The texts of the model's buttons, before strip().
CategoryTexts ==
    { << >>, << " ", " " >>, Letters(MinCategoryLen), << " " >> \o Letters(MinCategoryLen + 1) \o << " " >>,
      Letters(MaxCategoryLen - 1), Letters(MaxCategoryLen), Letters(MaxCategoryLen + 1) }

\* Lines 756-760: the first button whose stripped text has a length strictly
\* between the two limits.
RECURSIVE CategoryButtons(_)
CategoryButtons(texts) ==
    IF texts = << >> THEN NoStr
    ELSE LET text == Strip(Head(texts)) IN
         IF text # << >> /\ MinCategoryLen < Len(text) /\ Len(text) < MaxCategoryLen
         THEN text
         ELSE CategoryButtons(Tail(texts))

\* Lines 764-768: the stripped text of button.DkEaL, as it is.
CategoryDisplay(text) == IF text = NoStr THEN NoStr ELSE Strip(text)

\* raised1: the lookup of the first strategy raises; s2 is NoStr when that
\* of the second does (there is no such button).
get_category(page) ==
    IF ~page.raised1 /\ CategoryButtons(page.s1) # NoStr
    THEN CategoryButtons(page.s1)
    ELSE CategoryDisplay(page.s2)

CategoryPages ==
    { pg \in [ s1 : ListsOf(CategoryTexts, MaxButtons), raised1 : BOOLEAN,
               s2 : CategoryTexts \cup { NoStr } ] :
        pg.raised1 => pg.s1 = << >> }

\* _get_category is about to be called on a page.
InitCategory ==
    /\ pc = "gy_call"
    /\ input \in CategoryPages
    /\ output = << >> /\ ops = << >>
    /\ InitIdle

GetCategory ==
    /\ pc = "gy_call"
    /\ output' = get_category(input)
    /\ pc' = "gy_done"
    /\ UNCHANGED << input, ops >>
    /\ UNCHANGED << batchVars, placeVars, mergeVars, cleanVars >>

NextCategory == GetCategory

SpecCategory == InitCategory /\ [][NextCategory]_vars

\* C19: _get_category returns the absent marker or a text of 3 to 50
\* characters, never the empty string, whichever strategy produced it.
C19_ValidatedOrAbsent ==
    pc = "gy_done" =>
       \/ output = NoStr
       \/ MinCategoryLen <= Len(output) /\ Len(output) <= MaxCategoryLen

(***************************************************************************)
(* Session lifecycle of a batch run.                                       *)
(***************************************************************************)
LiveSessions == sessions.created - sessions.quit

\* C20: in a batch run at most one page-driver session is live at any time;
\* once a session has been created no other is created, so the first one is
\* used for every later seed; the scraper holds a driver exactly while that
\* session is live; and when scrape_csv_file has been left, normally or by a
\* propagating exception, the session is closed and the scraper holds no
\* driver.
C20_OneSessionClosedOnExit ==
    /\ LiveSessions \in { 0, 1 }
    /\ sessions.created <= 1
    /\ driver # None <=> LiveSessions = 1
    /\ \A j, k \in 1..Len(initLog) : j < k => ~initLog[j].created
    /\ pc \in { "done", "interrupted", "aborted" } =>
          driver = None /\ LiveSessions = 0

\* A run ended normally after a creation that failed at the first seed and
\* one that succeeded at the second; later seeds used that session, which
\* was closed on exit.
C20_Witness ==
    /\ pc = "done"
    /\ Len(initLog) = 2 /\ ~initLog[1].created /\ initLog[2].created
    /\ Len(data) >= 3
    /\ sessions = [ created |-> 1, quit |-> 1 ]
    /\ driver = None

====
